---- MODULE Spec2Model ----
(***************************************************************************)
(* Market-making core: the constant-product LiquidityPool, the             *)
(* InventoryController ledger and the MarketMaker coordinator.             *)
(*                                                                         *)
(* The program computes on JavaScript numbers.  Here a number is an exact  *)
(* rational [n |-> numerator, d |-> denominator] in lowest terms with      *)
(* d > 0, so that "exactly", "unchanged" and "strictly" are decided by the *)
(* formulas of the code and not by rounding in the last place.  The one    *)
(* rounding kept is that of a sum whose smaller term is beyond the 53 bits *)
(* of the larger: the sum is the larger term.  Inputs are drawn from small *)
(* sets on which Math.sqrt is exact (perfect squares).                     *)
(***************************************************************************)
EXTENDS Integers, Sequences, FiniteSets, TLC

VARIABLES
    \* LiquidityPool (src/index.ts:19-22)
    tokenAReserve, tokenBReserve, lpTokenSupply, fee,
    \* history variables of the pool: LP tokens held by depositors, whether
    \* initialize has succeeded since construction / the last reset
    lpHeld, poolCreated,
    \* InventoryController (src/unnamed/part_000:12-15): one record with the
    \* fields config, currentInventory, tradeHistory, avgEntryPrice
    ledger,
    \* MarketMaker (src/marketMaker.ts:38-47): config, the open-order table
    \* activeOrders (the ids in the Map), tradeHistory, isRunning, totalVolume,
    \* realizedPnL.  orders holds every Order object handed out by placeOrders,
    \* by id; nextId is the next unused order id.
    mmConfig, orders, activeOrders, tradeHistory, isRunning, totalVolume, realizedPnL,
    nextId,
    \* SpreadCalculator (src/spread.ts:12): its config
    spreadConfig,
    \* the last call made and what it returned, and the number of calls so far
    last, steps

poolVars == <<tokenAReserve, tokenBReserve, lpTokenSupply, fee, lpHeld, poolCreated>>
mmVars == <<mmConfig, orders, activeOrders, tradeHistory, isRunning, totalVolume,
           realizedPnL, nextId, spreadConfig>>
vars == <<poolVars, ledger, mmVars, last, steps>>

----------------------------------------------------------------------------
(* Rational arithmetic for the program's numbers: exact, but for the term  *)
(* a sum of doubles cannot register.                                       *)

IAbs(i) == IF i < 0 THEN -i ELSE i

RECURSIVE Gcd(_, _)
Gcd(a, b) == IF b = 0 THEN a ELSE Gcd(b, a % b)

Rat(n, d) ==
    LET s == IF d < 0 THEN -1 ELSE 1
        g == Gcd(IAbs(n), IAbs(d))
    IN  [n |-> (s * n) \div g, d |-> (s * d) \div g]

R(i) == [n |-> i, d |-> 1]
Zero == R(0)
One == R(1)
Half == Rat(1, 2)

\* A sum is rounded to the 53 bits of a double: a term below 2^-55 of the
\* other is lost, whichever the binade and the sign.  Absorbs(x, y) decides
\* it from the whole part of x and the whole part of 1 / y, 2^28 each at the
\* least; any other sum is exact.
TWO_POW_28 == 2 ^ 28

Absorbs(x, y) ==
    /\ y.d >= TWO_POW_28
    /\ y.n # 0
    /\ y.d \div TWO_POW_28 >= IAbs(y.n)
    /\ x.d > 0
    /\ IAbs(x.n) \div TWO_POW_28 >= x.d

Plus(x, y) ==
    IF x.d = 1 /\ y.d = 1 THEN [n |-> x.n + y.n, d |-> 1]
    ELSE IF Absorbs(x, y) THEN x
    ELSE IF Absorbs(y, x) THEN y
    ELSE LET g == Gcd(x.d, y.d)
         IN  Rat(x.n * (y.d \div g) + y.n * (x.d \div g), (x.d \div g) * y.d)

Neg(x) == [n |-> -x.n, d |-> x.d]
Minus(x, y) == Plus(x, Neg(y))

Times(x, y) ==
    LET g1 == Gcd(IAbs(x.n), y.d)
        g2 == Gcd(IAbs(y.n), x.d)
    IN  [n |-> (x.n \div g1) * (y.n \div g2), d |-> (x.d \div g2) * (y.d \div g1)]

\* x / y.  x / 0 is Infinity, -Infinity or NaN, written [n |-> 1, -1 or 0,
\* d |-> 0]: it arises only in report fields (shareOfPool), which nothing
\* reads back
Over(x, y) ==
    IF y.n = 0 THEN [n |-> IF x.n > 0 THEN 1 ELSE IF x.n < 0 THEN -1 ELSE 0, d |-> 0]
    ELSE Times(x, IF y.n < 0 THEN [n |-> -y.d, d |-> -y.n] ELSE [n |-> y.d, d |-> y.n])

\* x.n * y.d - y.n * x.d, divided by the common factors of the numerators
\* and of the denominators: its sign is the sign of x - y
Cmp(x, y) ==
    LET gd == Gcd(x.d, y.d)
        gn == Gcd(IAbs(x.n), IAbs(y.n))
    IN  IF gn = 0 THEN 0
        ELSE (x.n \div gn) * (y.d \div gd) - (y.n \div gn) * (x.d \div gd)

Lt(x, y) == Cmp(x, y) < 0
Le(x, y) == Cmp(x, y) <= 0
Gt(x, y) == Lt(y, x)
Ge(x, y) == Le(y, x)
RAbs(x) == [n |-> IAbs(x.n), d |-> x.d]
RMin(x, y) == IF Lt(y, x) THEN y ELSE x
RMax(x, y) == IF Lt(x, y) THEN y ELSE x

\* Math.sqrt on the perfect squares the inputs are drawn from
RECURSIVE ISqrtBin(_, _, _)
ISqrtBin(i, lo, hi) ==
    IF hi - lo <= 1 THEN lo
    ELSE LET m == (lo + hi) \div 2
         IN  IF m * m <= i THEN ISqrtBin(i, m, hi) ELSE ISqrtBin(i, lo, m)
ISqrt(i) == ISqrtBin(i, 0, 46341)
IsSquare(x) == /\ x.n >= 0
               /\ ISqrt(x.n) * ISqrt(x.n) = x.n
               /\ ISqrt(x.d) * ISqrt(x.d) = x.d
Sqrt(x) == [n |-> ISqrt(x.n), d |-> ISqrt(x.d)]

----------------------------------------------------------------------------
(* LiquidityPool (src/index.ts).  Every method is an operator giving the   *)
(* outcome of the call in the current state: err is "none" or the message  *)
(* of the Error thrown, the three fields are the pool's fields after the   *)
(* call, ret is the value returned.                                        *)

MINIMUM_LIQUIDITY == 1000

Pool(a, b, s) == [tokenAReserve |-> a, tokenBReserve |-> b, lpTokenSupply |-> s]
PoolNow == Pool(tokenAReserve, tokenBReserve, lpTokenSupply)

\* throw new Error(msg): nothing assigned before the throw
Throw(msg) == [err |-> msg, pool |-> PoolNow, ret |-> <<>>]
Return(p, r) == [err |-> "none", pool |-> p, ret |-> r]

\* mutant: the floor stays in the supply and the depositor is granted the rest
initialize_FloorInSupply(tokenAAmount, tokenBAmount) ==
    LET initialLiquidity == Sqrt(Times(tokenAAmount, tokenBAmount))
        granted == Minus(initialLiquidity, R(MINIMUM_LIQUIDITY))
    IN  IF Gt(lpTokenSupply, Zero) THEN Throw("Pool already initialized")
        ELSE IF Le(tokenAAmount, Zero) \/ Le(tokenBAmount, Zero)
             THEN Throw("Invalid initial liquidity amounts")
        ELSE IF Lt(initialLiquidity, R(MINIMUM_LIQUIDITY))
             THEN Throw("Initial liquidity too low")
        ELSE Return(Pool(tokenAAmount, tokenBAmount, initialLiquidity),
                    [lpTokensReceived |-> granted,
                     tokenADeposited |-> tokenAAmount,
                     tokenBDeposited |-> tokenBAmount,
                     shareOfPool |-> One])

\* mutant: an initialized pool is initialized again
initialize_NoInitializedCheck(tokenAAmount, tokenBAmount) ==
    LET initialLiquidity == Sqrt(Times(tokenAAmount, tokenBAmount))
        supply == Minus(initialLiquidity, R(MINIMUM_LIQUIDITY))
    IN  IF Le(tokenAAmount, Zero) \/ Le(tokenBAmount, Zero)
        THEN Throw("Invalid initial liquidity amounts")
        ELSE IF Lt(initialLiquidity, R(MINIMUM_LIQUIDITY))
             THEN Throw("Initial liquidity too low")
        ELSE Return(Pool(tokenAAmount, tokenBAmount, supply),
                    [lpTokensReceived |-> supply,
                     tokenADeposited |-> tokenAAmount,
                     tokenBDeposited |-> tokenBAmount,
                     shareOfPool |-> One])

initialize(tokenAAmount, tokenBAmount) ==
    LET initialLiquidity == Sqrt(Times(tokenAAmount, tokenBAmount))
        supply == Minus(initialLiquidity, R(MINIMUM_LIQUIDITY))
    IN  IF Gt(lpTokenSupply, Zero) THEN Throw("Pool already initialized")
        ELSE IF Le(tokenAAmount, Zero) \/ Le(tokenBAmount, Zero)
             THEN Throw("Invalid initial liquidity amounts")
        ELSE IF Lt(initialLiquidity, R(MINIMUM_LIQUIDITY))
             THEN Throw("Initial liquidity too low")
        ELSE Return(Pool(tokenAAmount, tokenBAmount, supply),
                    [lpTokensReceived |-> supply,
                     tokenADeposited |-> tokenAAmount,
                     tokenBDeposited |-> tokenBAmount,
                     shareOfPool |-> One])

getPrice ==
    IF tokenAReserve = Zero THEN Zero ELSE Over(tokenBReserve, tokenAReserve)

\* The swap quote.  priceImpact and newPrice are report-only values that no
\* operation reads back; the quote keeps amountIn, amountOut and fee.
simulateSwap(amountIn, tokenIn) ==
    LET feeAmount == Times(amountIn, fee)
        amountInAfterFee == Minus(amountIn, feeAmount)
        reserveIn == IF tokenIn = "A" THEN tokenAReserve ELSE tokenBReserve
        reserveOut == IF tokenIn = "A" THEN tokenBReserve ELSE tokenAReserve
        newReserveIn == Plus(reserveIn, amountInAfterFee)
        k == Times(tokenAReserve, tokenBReserve)
        newReserveOut == Over(k, newReserveIn)
        amountOut == Minus(reserveOut, newReserveOut)
    IN  IF Le(amountIn, Zero)
        THEN [err |-> "Invalid swap amount"]
        ELSE [err |-> "none", amountIn |-> amountIn, amountOut |-> amountOut,
              fee |-> feeAmount]

\* mutant: the slippage floor is not checked
executeSwap_NoSlippageCheck(amountIn, tokenIn, minAmountOut) ==
    LET result == simulateSwap(amountIn, tokenIn)
        amountInAfterFee == Minus(amountIn, result.fee)
    IN  IF result.err # "none" THEN Throw(result.err)
        ELSE IF tokenIn = "A"
             THEN Return(Pool(Plus(tokenAReserve, amountInAfterFee),
                              Minus(tokenBReserve, result.amountOut),
                              lpTokenSupply), result)
             ELSE Return(Pool(Minus(tokenAReserve, result.amountOut),
                              Plus(tokenBReserve, amountInAfterFee),
                              lpTokenSupply), result)

executeSwap(amountIn, tokenIn, minAmountOut) ==
    LET result == simulateSwap(amountIn, tokenIn)
        amountInAfterFee == Minus(amountIn, result.fee)
    IN  IF result.err # "none" THEN Throw(result.err)
        ELSE IF Lt(result.amountOut, minAmountOut) THEN Throw("Slippage exceeded")
        ELSE IF tokenIn = "A"
             THEN Return(Pool(Plus(tokenAReserve, amountInAfterFee),
                              Minus(tokenBReserve, result.amountOut),
                              lpTokenSupply), result)
             ELSE Return(Pool(Minus(tokenAReserve, result.amountOut),
                              Plus(tokenBReserve, amountInAfterFee),
                              lpTokenSupply), result)

\* mutant: the side that is not limiting is deposited in full
addLiquidity_TakesLargerSide(tokenAAmount, tokenBAmount) ==
    IF lpTokenSupply = Zero THEN initialize(tokenAAmount, tokenBAmount)
    ELSE
    LET currentRatio == Over(tokenBReserve, tokenAReserve)
        providedAbove == IF tokenAAmount = Zero THEN Gt(tokenBAmount, Zero)
                         ELSE Gt(Over(tokenBAmount, tokenAAmount), currentRatio)
        actualTokenA == IF ~providedAbove
                        THEN tokenAAmount
                        ELSE Over(tokenBAmount, currentRatio)
        actualTokenB == IF ~providedAbove
                        THEN Times(tokenAAmount, currentRatio)
                        ELSE tokenBAmount
        lpTokensMinted ==
            RMin(Over(Times(actualTokenA, lpTokenSupply), tokenAReserve),
                 Over(Times(actualTokenB, lpTokenSupply), tokenBReserve))
        newSupply == Plus(lpTokenSupply, lpTokensMinted)
    IN  Return(Pool(Plus(tokenAReserve, actualTokenA),
                    Plus(tokenBReserve, actualTokenB),
                    newSupply),
               [lpTokensReceived |-> lpTokensMinted,
                tokenADeposited |-> actualTokenA,
                tokenBDeposited |-> actualTokenB,
                shareOfPool |-> Over(lpTokensMinted, newSupply)])

\* The amounts are not validated when the pool has LP supply.  The reserves
\* of such a pool are not 0, so currentRatio is a number; providedRatio is
\* tokenBAmount / 0 when tokenAAmount is 0: Infinity (above every ratio) for
\* tokenBAmount > 0, -Infinity or NaN (above none) otherwise.
addLiquidity(tokenAAmount, tokenBAmount) ==
    IF lpTokenSupply = Zero THEN initialize(tokenAAmount, tokenBAmount)
    ELSE
    LET currentRatio == Over(tokenBReserve, tokenAReserve)
        providedAbove == IF tokenAAmount = Zero THEN Gt(tokenBAmount, Zero)
                         ELSE Gt(Over(tokenBAmount, tokenAAmount), currentRatio)
        actualTokenA == IF providedAbove
                        THEN tokenAAmount
                        ELSE Over(tokenBAmount, currentRatio)
        actualTokenB == IF providedAbove
                        THEN Times(tokenAAmount, currentRatio)
                        ELSE tokenBAmount
        lpTokensMinted ==
            RMin(Over(Times(actualTokenA, lpTokenSupply), tokenAReserve),
                 Over(Times(actualTokenB, lpTokenSupply), tokenBReserve))
        newSupply == Plus(lpTokenSupply, lpTokensMinted)
    IN  Return(Pool(Plus(tokenAReserve, actualTokenA),
                    Plus(tokenBReserve, actualTokenB),
                    newSupply),
               [lpTokensReceived |-> lpTokensMinted,
                tokenADeposited |-> actualTokenA,
                tokenBDeposited |-> actualTokenB,
                shareOfPool |-> Over(lpTokensMinted, newSupply)])

\* mutant: burning the whole supply is rejected (>= for >)
removeLiquidity_RejectsWholeSupply(lpTokens) ==
    LET shareRatio == Over(lpTokens, lpTokenSupply)
        tokenAAmount == Times(tokenAReserve, shareRatio)
        tokenBAmount == Times(tokenBReserve, shareRatio)
    IN  IF Le(lpTokens, Zero) \/ Ge(lpTokens, lpTokenSupply)
        THEN Throw("Invalid LP token amount")
        ELSE Return(Pool(Minus(tokenAReserve, tokenAAmount),
                         Minus(tokenBReserve, tokenBAmount),
                         Minus(lpTokenSupply, lpTokens)),
                    [lpTokensBurned |-> lpTokens,
                     tokenAReceived |-> tokenAAmount,
                     tokenBReceived |-> tokenBAmount,
                     fee |-> Zero])

removeLiquidity(lpTokens) ==
    LET shareRatio == Over(lpTokens, lpTokenSupply)
        tokenAAmount == Times(tokenAReserve, shareRatio)
        tokenBAmount == Times(tokenBReserve, shareRatio)
    IN  IF Le(lpTokens, Zero) \/ Gt(lpTokens, lpTokenSupply)
        THEN Throw("Invalid LP token amount")
        ELSE Return(Pool(Minus(tokenAReserve, tokenAAmount),
                         Minus(tokenBReserve, tokenBAmount),
                         Minus(lpTokenSupply, lpTokens)),
                    [lpTokensBurned |-> lpTokens,
                     tokenAReceived |-> tokenAAmount,
                     tokenBReceived |-> tokenBAmount,
                     fee |-> Zero])

poolReset == Return(Pool(Zero, Zero, Zero), <<>>)

\* totalLiquidity (a square root) and lastUpdate are left out of the report
poolGetState ==
    Return(PoolNow, [tokenAReserve |-> tokenAReserve, tokenBReserve |-> tokenBReserve,
                     lpTokenSupply |-> lpTokenSupply, fee |-> fee])

\* impermanentLoss, always 0, is left out
getLiquidityPosition(lpTokens) ==
    IF Le(lpTokens, Zero) \/ lpTokenSupply = Zero
    THEN [lpTokens |-> Zero, shareOfPool |-> Zero, tokenAAmount |-> Zero,
          tokenBAmount |-> Zero, entryPrice |-> Zero, currentValue |-> Zero]
    ELSE
    LET shareOfPool == Over(lpTokens, lpTokenSupply)
        tokenAAmount == Times(tokenAReserve, shareOfPool)
        tokenBAmount == Times(tokenBReserve, shareOfPool)
        currentPrice == getPrice
    IN  [lpTokens |-> lpTokens, shareOfPool |-> shareOfPool,
         tokenAAmount |-> tokenAAmount, tokenBAmount |-> tokenBAmount,
         entryPrice |-> currentPrice,
         currentValue |-> Plus(Times(tokenAAmount, currentPrice), tokenBAmount)]

\* the queries give [err, ret]: the Error thrown or the number returned
getAmountOut(amountIn, tokenIn) ==
    LET result == simulateSwap(amountIn, tokenIn)
    IN  IF result.err # "none" THEN [err |-> result.err, ret |-> <<>>]
        ELSE [err |-> "none", ret |-> result.amountOut]

\* mutant: the fee is left out of the inverse
getAmountIn_NoFee(amountOut, tokenOut) ==
    LET reserveIn == IF tokenOut = "A" THEN tokenBReserve ELSE tokenAReserve
        reserveOut == IF tokenOut = "A" THEN tokenAReserve ELSE tokenBReserve
        numerator == Times(reserveIn, amountOut)
        denominator == Minus(reserveOut, amountOut)
    IN  IF Le(amountOut, Zero) THEN [err |-> "none", ret |-> Zero]
        ELSE IF Ge(amountOut, reserveOut)
             THEN [err |-> "Insufficient liquidity", ret |-> <<>>]
        ELSE [err |-> "none", ret |-> Over(numerator, denominator)]

getAmountIn(amountOut, tokenOut) ==
    LET reserveIn == IF tokenOut = "A" THEN tokenBReserve ELSE tokenAReserve
        reserveOut == IF tokenOut = "A" THEN tokenAReserve ELSE tokenBReserve
        numerator == Times(reserveIn, amountOut)
        denominator == Times(Minus(reserveOut, amountOut), Minus(One, fee))
    IN  IF Le(amountOut, Zero) THEN [err |-> "none", ret |-> Zero]
        ELSE IF Ge(amountOut, reserveOut)
             THEN [err |-> "Insufficient liquidity", ret |-> <<>>]
        ELSE [err |-> "none", ret |-> Over(numerator, denominator)]

\* gives the Error thrown and the pool's fee after the call
setFee(newFee) ==
    IF Lt(newFee, Zero) \/ Ge(newFee, One)
    THEN [err |-> "Fee must be between 0 and 1", fee |-> fee]
    ELSE [err |-> "none", fee |-> newFee]

----------------------------------------------------------------------------
(* SpreadCalculator (src/spread.ts).  A method is an operator on the       *)
(* calculator record self, whose one field is config.  A MarketData keeps  *)
(* volume24h and volatility, an InventoryState keeps inventoryRatio: the   *)
(* other fields are not read here.                                         *)

DEFAULT_SPREAD_CONFIG ==
    [baseSpread |-> Rat(2, 1000), minSpread |-> Rat(5, 10000), maxSpread |-> Rat(2, 100),
     volatilityMultiplier |-> R(2), inventorySkewMultiplier |-> Half]

\* { ...a, ...b }: the fields b supplies replace those of a
Merge(a, b) ==
    [f \in DOMAIN a |-> IF f \in DOMAIN b THEN b[f] ELSE a[f]]

SpreadCalculator(config) == [config |-> Merge(DEFAULT_SPREAD_CONFIG, config)]

calculateBaseSpread(self, marketData) ==
    LET volumeFactor ==
            RMax(Half, RMin(R(2), Over(R(1000000), Plus(marketData.volume24h, One))))
    IN  Times(self.config.baseSpread, volumeFactor)

calculateVolatilityAdjustment(self, volatility) ==
    LET normalizedVolatility == RMax(Zero, Minus(volatility, Rat(1, 100)))
    IN  Times(normalizedVolatility, self.config.volatilityMultiplier)

\* mutant: the deviation is taken the other way round
calculateInventorySkew_Reversed(self, inventoryState) ==
    LET deviation == Minus(Half, inventoryState.inventoryRatio)
    IN  Times(Times(deviation, self.config.inventorySkewMultiplier), R(2))

calculateInventorySkew(self, inventoryState) ==
    LET deviation == Minus(inventoryState.inventoryRatio, Half)
    IN  Times(Times(deviation, self.config.inventorySkewMultiplier), R(2))

calculateOptimalSpread(self, marketData, inventoryState) ==
    LET baseSpread == calculateBaseSpread(self, marketData)
        volatilityAdjustment ==
            calculateVolatilityAdjustment(self, marketData.volatility)
        inventorySkew == calculateInventorySkew(self, inventoryState)
        totalSpread == RMin(RMax(Plus(baseSpread, volatilityAdjustment),
                                 self.config.minSpread),
                            self.config.maxSpread)
        halfSpread == Over(totalSpread, R(2))
        bidSpread == Times(halfSpread, Plus(One, inventorySkew))
        askSpread == Times(halfSpread, Minus(One, inventorySkew))
    IN  [bidSpread |-> RMax(bidSpread, Over(self.config.minSpread, R(2))),
         askSpread |-> RMax(askSpread, Over(self.config.minSpread, R(2)))]

spreadUpdateConfig(self, config) ==
    [self EXCEPT !.config = Merge(self.config, config)]

----------------------------------------------------------------------------
(* InventoryController (src/unnamed/part_000).  A method is an operator on *)
(* the controller record self, giving the record after the call (or the    *)
(* value returned, for a query).  A Trade keeps side, price, size and fee; *)
(* its id and timestamp are never read.                                    *)

DEFAULT_INVENTORY_CONFIG ==
    [targetInventory |-> R(0), maxInventory |-> R(1000), minInventory |-> R(-1000),
     rebalanceThreshold |-> Rat(3, 10)]

HISTORY_CAP == 1000
HISTORY_KEEP == 500

InventoryController(config) ==
    [config |-> Merge(DEFAULT_INVENTORY_CONFIG, config),
     currentInventory |-> Zero,
     tradeHistory |-> <<>>,
     avgEntryPrice |-> Zero]

\* called after currentInventory has been moved by the trade
updateAvgEntryPrice(self, price, size, side) ==
    IF side = "buy" /\ Gt(self.currentInventory, Zero)
    THEN LET previousValue == Times(self.avgEntryPrice, Minus(self.currentInventory, size))
             newValue == Times(price, size)
         IN  [self EXCEPT !.avgEntryPrice =
                  Over(Plus(previousValue, newValue), self.currentInventory)]
    ELSE IF side = "sell" /\ Lt(self.currentInventory, Zero)
    THEN LET previousValue == Times(self.avgEntryPrice,
                                    RAbs(Plus(self.currentInventory, size)))
             newValue == Times(price, size)
         IN  [self EXCEPT !.avgEntryPrice =
                  Over(Plus(previousValue, newValue), RAbs(self.currentInventory))]
    ELSE self

\* mutant: the lower limit is not enforced
enforceInventoryLimits_OnlyMax(self) ==
    IF Gt(self.currentInventory, self.config.maxInventory)
    THEN [self EXCEPT !.currentInventory = self.config.maxInventory]
    ELSE self

enforceInventoryLimits(self) ==
    IF Gt(self.currentInventory, self.config.maxInventory)
    THEN [self EXCEPT !.currentInventory = self.config.maxInventory]
    ELSE IF Lt(self.currentInventory, self.config.minInventory)
    THEN [self EXCEPT !.currentInventory = self.config.minInventory]
    ELSE self

\* mutant: the oldest entries are kept
LastEntries_Oldest(h, n) == IF Len(h) <= n THEN h ELSE SubSeq(h, 1, n)

\* slice(-HISTORY_KEEP): the last HISTORY_KEEP entries
LastEntries(h, n) == IF Len(h) <= n THEN h ELSE SubSeq(h, Len(h) - n + 1, Len(h))

updateInventory(self, trade) ==
    LET moved == [self EXCEPT !.currentInventory =
                      IF trade.side = "buy" THEN Plus(@, trade.size)
                      ELSE Minus(@, trade.size)]
        priced == updateAvgEntryPrice(moved, trade.price, trade.size, trade.side)
        pushed == Append(priced.tradeHistory, trade)
        kept == IF Len(pushed) > HISTORY_CAP THEN LastEntries(pushed, HISTORY_KEEP)
                ELSE pushed
    IN  enforceInventoryLimits([priced EXCEPT !.tradeHistory = kept])

\* deviation / range > rebalanceThreshold; with range = 0 the quotient is
\* Infinity (deviation > 0) or NaN (deviation = 0)
needsRebalancing(self) ==
    LET deviation == RAbs(Minus(self.currentInventory, self.config.targetInventory))
        range == Minus(self.config.maxInventory, self.config.minInventory)
    IN  IF range = Zero THEN Gt(deviation, Zero)
        ELSE Gt(Over(deviation, range), self.config.rebalanceThreshold)

getRebalanceAmount(self) ==
    Minus(self.config.targetInventory, self.currentInventory)

calculatePosition(self, currentPrice) ==
    LET netExposure == Times(self.currentInventory, currentPrice)
    IN  [baseBalance |-> self.currentInventory,
         quoteBalance |-> Neg(netExposure),
         netExposure |-> netExposure,
         unrealizedPnL |->
             IF Gt(self.currentInventory, Zero)
             THEN Times(self.currentInventory, Minus(currentPrice, self.avgEntryPrice))
             ELSE IF Lt(self.currentInventory, Zero)
             THEN Times(RAbs(self.currentInventory),
                        Minus(self.avgEntryPrice, currentPrice))
             ELSE Zero]

shouldAcceptOrder(self, side, size) ==
    IF side = "buy"
    THEN Le(Plus(self.currentInventory, size), self.config.maxInventory)
    ELSE Ge(Minus(self.currentInventory, size), self.config.minInventory)

getMaxOrderSize(self, side) ==
    IF side = "buy"
    THEN RMax(Zero, Minus(self.config.maxInventory, self.currentInventory))
    ELSE RMax(Zero, Minus(self.currentInventory, self.config.minInventory))

\* the loop of getTradeStats over tradeHistory: the sizes of the trades of one
\* side in h[lo .. hi], summed by halves
RECURSIVE SideVolumeIn(_, _, _, _)
SideVolumeIn(h, side, lo, hi) ==
    IF lo > hi THEN Zero
    ELSE IF lo = hi THEN IF h[lo].side = side THEN h[lo].size ELSE Zero
    ELSE Plus(SideVolumeIn(h, side, lo, (lo + hi) \div 2),
              SideVolumeIn(h, side, (lo + hi) \div 2 + 1, hi))

getTradeStats(self) ==
    LET buyVolume == SideVolumeIn(self.tradeHistory, "buy", 1, Len(self.tradeHistory))
        sellVolume == SideVolumeIn(self.tradeHistory, "sell", 1, Len(self.tradeHistory))
    IN  [count |-> Len(self.tradeHistory),
         buyVolume |-> buyVolume,
         sellVolume |-> sellVolume,
         netVolume |-> Minus(buyVolume, sellVolume)]

setInventory(self, inventory) ==
    [self EXCEPT !.currentInventory =
         RMax(self.config.minInventory, RMin(self.config.maxInventory, inventory))]

inventoryUpdateConfig(self, config) ==
    [self EXCEPT !.config = Merge(self.config, config)]

inventoryReset(self) ==
    [self EXCEPT !.currentInventory = self.config.targetInventory,
                 !.tradeHistory = <<>>,
                 !.avgEntryPrice = Zero]

----------------------------------------------------------------------------
(* MarketMaker (src/marketMaker.ts).  A method is an operator on the       *)
(* coordinator record self (its fields, with inventoryController the       *)
(* controller record), giving [self |-> the record after the call,         *)
(* ret |-> the value returned].  null is <<>> and a returned object x is   *)
(* <<x>>.                                                                  *)

DEFAULT_CONFIG ==
    [spread |-> DEFAULT_SPREAD_CONFIG,
     inventory |-> DEFAULT_INVENTORY_CONFIG,
     orderSize |-> R(100), maxOrderSize |-> R(500), minOrderSize |-> R(10),
     priceTickSize |-> Rat(1, 10000), sizeTickSize |-> Rat(1, 100)]

Null == <<>>
Some(x) == <<x>>

\* Math.round: the nearest integer, halves up
Round(x) == (2 * x.n + x.d) \div (2 * x.d)

roundToTick(value, tickSize) == Times(R(Round(Over(value, tickSize))), tickSize)

createOrderObject(self, side, price, size) ==
    [id |-> self.nextId,
     side |-> side,
     price |-> roundToTick(price, self.config.priceTickSize),
     size |-> roundToTick(size, self.config.sizeTickSize),
     filledSize |-> Zero,
     status |-> "pending"]

createOrder(self, side, price, size) ==
    LET adjustedSize == RMax(self.config.minOrderSize,
                             RMin(self.config.maxOrderSize, size))
        maxSize == getMaxOrderSize(self.inventoryController, side)
    IN  IF ~shouldAcceptOrder(self.inventoryController, side, adjustedSize)
        THEN createOrderObject(self, side, price, RMin(adjustedSize, maxSize))
        ELSE createOrderObject(self, side, price, adjustedSize)

\* the order ids are unique: the two orders take the next two unused ids
placeOrders(self, quote) ==
    LET bidOrder == createOrder(self, "buy", quote.bidPrice, quote.bidSize)
        next == [self EXCEPT !.nextId = @ + 1]
        askOrder == createOrder(next, "sell", quote.askPrice, quote.askSize)
    IN  [self |-> [self EXCEPT
                     !.nextId = @ + 2,
                     !.orders = [i \in DOMAIN @ \cup {bidOrder.id, askOrder.id} |->
                                   IF i = bidOrder.id THEN bidOrder
                                   ELSE IF i = askOrder.id THEN askOrder
                                   ELSE @[i]],
                     !.activeOrders = @ \cup {bidOrder.id, askOrder.id}],
         ret |-> [bidOrder |-> bidOrder, askOrder |-> askOrder]]

\* the sums of the loop over tradeHistory, taken over h[lo .. hi] by halves
RECURSIVE BuyCostIn(_, _, _), BuySizeIn(_, _, _)
BuyCostIn(h, lo, hi) ==
    IF lo > hi THEN Zero
    ELSE IF lo = hi
         THEN IF h[lo].side = "buy" THEN Times(h[lo].price, h[lo].size) ELSE Zero
    ELSE Plus(BuyCostIn(h, lo, (lo + hi) \div 2),
              BuyCostIn(h, (lo + hi) \div 2 + 1, hi))
BuySizeIn(h, lo, hi) ==
    IF lo > hi THEN Zero
    ELSE IF lo = hi
         THEN IF h[lo].side = "buy" THEN h[lo].size ELSE Zero
    ELSE Plus(BuySizeIn(h, lo, (lo + hi) \div 2),
              BuySizeIn(h, (lo + hi) \div 2 + 1, hi))

BuyCost(h) == BuyCostIn(h, 1, Len(h))
BuySize(h) == BuySizeIn(h, 1, Len(h))

getAvgEntryPrice(self) ==
    IF Len(self.tradeHistory) = 0 THEN Zero
    ELSE IF Gt(BuySize(self.tradeHistory), Zero)
         THEN Over(BuyCost(self.tradeHistory), BuySize(self.tradeHistory))
         ELSE Zero

updateRealizedPnL(self, trade) ==
    LET position == calculatePosition(self.inventoryController, trade.price)
        pnl == IF trade.side = "sell"
               THEN Times(Minus(trade.price, getAvgEntryPrice(self)), trade.size)
               ELSE Times(Minus(getAvgEntryPrice(self), trade.price), trade.size)
    IN  IF \/ (trade.side = "sell" /\ Ge(position.baseBalance, Zero))
           \/ (trade.side = "buy" /\ Le(position.baseBalance, Zero))
        THEN [self EXCEPT !.realizedPnL = Plus(@, Minus(pnl, trade.fee))]
        ELSE self

\* mutant: the order is looked up among all orders made, not in the open table
processFill_AnyOrder(self, orderId, filledSize, fillPrice) ==
    IF orderId \notin DOMAIN self.orders THEN [self |-> self, ret |-> Null]
    ELSE
    LET order == self.orders[orderId]
        filled == Plus(order.filledSize, filledSize)
        done == Ge(filled, order.size)
        trade == [side |-> order.side, price |-> fillPrice, size |-> filledSize,
                  fee |-> Times(Times(filledSize, fillPrice), Rat(1, 1000))]
        booked == [self EXCEPT
                     !.orders[orderId].filledSize = filled,
                     !.orders[orderId].status = IF done THEN "filled" ELSE "partial",
                     !.activeOrders = IF done THEN @ \ {orderId} ELSE @,
                     !.inventoryController = updateInventory(@, trade),
                     !.tradeHistory = Append(@, trade),
                     !.totalVolume = Plus(@, Times(filledSize, fillPrice))]
    IN  [self |-> updateRealizedPnL(booked, trade), ret |-> Some(trade)]

processFill(self, orderId, filledSize, fillPrice) ==
    IF orderId \notin self.activeOrders THEN [self |-> self, ret |-> Null]
    ELSE
    LET order == self.orders[orderId]
        filled == Plus(order.filledSize, filledSize)
        done == Ge(filled, order.size)
        trade == [side |-> order.side, price |-> fillPrice, size |-> filledSize,
                  fee |-> Times(Times(filledSize, fillPrice), Rat(1, 1000))]
        booked == [self EXCEPT
                     !.orders[orderId].filledSize = filled,
                     !.orders[orderId].status = IF done THEN "filled" ELSE "partial",
                     !.activeOrders = IF done THEN @ \ {orderId} ELSE @,
                     !.inventoryController = updateInventory(@, trade),
                     !.tradeHistory = Append(@, trade),
                     !.totalVolume = Plus(@, Times(filledSize, fillPrice))]
    IN  [self |-> updateRealizedPnL(booked, trade), ret |-> Some(trade)]

\* mutant: the fills of the cancelled order are taken back out of the position
cancelOrder_UndoesFills(self, orderId) ==
    IF orderId \notin self.activeOrders THEN [self |-> self, ret |-> FALSE]
    ELSE [self |-> [self EXCEPT
                      !.orders[orderId].status = "cancelled",
                      !.activeOrders = @ \ {orderId},
                      !.inventoryController.currentInventory =
                          IF self.orders[orderId].side = "buy"
                          THEN Minus(@, self.orders[orderId].filledSize)
                          ELSE Plus(@, self.orders[orderId].filledSize)],
          ret |-> TRUE]

cancelOrder(self, orderId) ==
    IF orderId \notin self.activeOrders THEN [self |-> self, ret |-> FALSE]
    ELSE [self |-> [self EXCEPT !.orders[orderId].status = "cancelled",
                                !.activeOrders = @ \ {orderId}],
          ret |-> TRUE]

RECURSIVE cancelEach(_, _)
cancelEach(self, ids) ==
    IF ids = {} THEN self
    ELSE LET orderId == CHOOSE i \in ids : TRUE
         IN  cancelEach(cancelOrder(self, orderId).self, ids \ {orderId})

cancelAllOrders(self) == [self |-> cancelEach(self, self.activeOrders), ret |-> Null]

start(self) ==
    [self |-> IF self.isRunning THEN self ELSE [self EXCEPT !.isRunning = TRUE],
     ret |-> Null]

stop(self) ==
    [self |-> cancelAllOrders([self EXCEPT !.isRunning = FALSE]).self, ret |-> Null]

\* the order made here is never put in the open-order table; its id is unused
executeRebalance(self, marketData) ==
    IF ~needsRebalancing(self.inventoryController) THEN [self |-> self, ret |-> Null]
    ELSE
    LET rebalanceAmount == getRebalanceAmount(self.inventoryController)
        side == IF Gt(rebalanceAmount, Zero) THEN "buy" ELSE "sell"
        size == RAbs(rebalanceAmount)
        price == IF side = "buy" THEN marketData.askPrice ELSE marketData.bidPrice
        order == createOrder(self, side, price, size)
    IN  processFill(self, order.id, size, price)

\* The pool operations of the coordinator: self is the coordinator after the
\* call, out the outcome of the pool's method (its Error goes to the caller).
initializeLiquidityPool(self, tokenA, tokenB) ==
    [self |-> self, out |-> initialize(tokenA, tokenB)]

mmAddLiquidity(self, tokenA, tokenB) ==
    [self |-> self, out |-> addLiquidity(tokenA, tokenB)]

mmRemoveLiquidity(self, lpTokens) ==
    [self |-> self, out |-> removeLiquidity(lpTokens)]

\* mutant: a swap that succeeds is booked as traded volume
mmExecuteSwap_BooksVolume(self, amountIn, tokenIn, minAmountOut) ==
    LET out == executeSwap(amountIn, tokenIn, minAmountOut)
    IN  [self |-> IF out.err = "none"
                  THEN [self EXCEPT !.totalVolume = Plus(@, amountIn)] ELSE self,
         out |-> out]

mmExecuteSwap(self, amountIn, tokenIn, minAmountOut) ==
    [self |-> self, out |-> executeSwap(amountIn, tokenIn, minAmountOut)]

getPoolState(self) == [self |-> self, out |-> poolGetState]

\* updateConfig({spread: ..., inventory: ...}): an entry replaces the
\* coordinator's, and is merged into the calculator's or the controller's own
\* configuration
updateConfig(self, config) ==
    [self |-> [self EXCEPT
                 !.config = Merge(@, config),
                 !.spreadCalculator =
                     IF "spread" \in DOMAIN config
                     THEN spreadUpdateConfig(@, config.spread) ELSE @,
                 !.inventoryController =
                     IF "inventory" \in DOMAIN config
                     THEN inventoryUpdateConfig(@, config.inventory) ELSE @],
     ret |-> Null]

\* The statistics.  avgSpread and uptime are left out: they are computed
\* from the trade prices and the clock and nothing reads them back.
getStats(self) ==
    LET position == calculatePosition(self.inventoryController,
                        IF Len(self.tradeHistory) > 0
                        THEN self.tradeHistory[Len(self.tradeHistory)].price
                        ELSE Zero)
        tradeStats == getTradeStats(self.inventoryController)
    IN  [totalTrades |-> tradeStats.count,
         totalVolume |-> self.totalVolume,
         realizedPnL |-> self.realizedPnL,
         unrealizedPnL |-> position.unrealizedPnL,
         inventoryTurnover |-> Plus(tradeStats.buyVolume, tradeStats.sellVolume)]

\* the pool's own reset is applied by the action, to the pool's variables
mmReset(self) ==
    [self |-> [stop(self).self EXCEPT
                 !.activeOrders = {},
                 !.tradeHistory = <<>>,
                 !.totalVolume = Zero,
                 !.realizedPnL = Zero,
                 !.inventoryController = inventoryReset(@)],
     ret |-> Null]

MarketMaker(config) ==
    LET merged == Merge(DEFAULT_CONFIG, config)
    IN  [config |-> merged,
         spreadCalculator |-> SpreadCalculator(merged.spread),
         inventoryController |-> InventoryController(merged.inventory),
         orders |-> <<>>,
         activeOrders |-> {},
         tradeHistory |-> <<>>,
         isRunning |-> FALSE,
         totalVolume |-> Zero,
         realizedPnL |-> Zero,
         nextId |-> 1]

----------------------------------------------------------------------------
(* The pool as a state machine: one action per public mutating method.     *)

MaxPoolCalls == 3

\* fees given to the constructor, which takes any number, and to setFee
PoolFees == {Zero, Half, R(-1)}
FeeUpdates == {Half, One, R(-1)}

\* (tokenA, tokenB) amounts offered to initialize / addLiquidity; every pair
\* of positive amounts has a perfect-square product
AmountPairs ==
    { <<R(0), R(1000)>>, <<R(1000), R(-1000)>>, <<R(500), R(500)>>,
      <<R(500), R(2000)>>, <<R(1000), R(1000)>>, <<R(2000), R(2000)>>,
      <<R(1000), R(4000)>>, <<R(4000), R(1000)>> }
PositivePairs == { p \in AmountPairs : Gt(p[1], Zero) /\ Gt(p[2], Zero) }
\* amounts offered to addLiquidity on a pool that has LP supply
AddPairs == PositivePairs \cup { <<R(0), R(1000)>>, <<R(-500), R(-500)>> }

SwapAmounts == { R(-1000), R(0), R(1000), R(2000) }
MinAmountsOut == { R(0), R(400), R(1000) }

\* LP token amounts offered to removeLiquidity
LpAmounts == { R(-500), R(0), R(500), lpTokenSupply, Plus(lpTokenSupply, One) }

Call(op, args, out) == [op |-> op, args |-> args, err |-> out.err, ret |-> out.ret]

PoolStep(op, args, out) ==
    /\ steps < MaxPoolCalls
    /\ steps' = steps + 1
    /\ tokenAReserve' = out.pool.tokenAReserve
    /\ tokenBReserve' = out.pool.tokenBReserve
    /\ lpTokenSupply' = out.pool.lpTokenSupply
    /\ fee' = fee
    /\ last' = Call(op, args, out)
    /\ UNCHANGED <<ledger, mmVars>>

Initialize ==
    \E p \in AmountPairs :
        LET out == initialize(p[1], p[2])
        IN  /\ PoolStep("initialize", p, out)
            /\ lpHeld' = IF out.err = "none"
                         THEN Plus(lpHeld, out.ret.lpTokensReceived) ELSE lpHeld
            /\ poolCreated' = (poolCreated \/ out.err = "none")

ExecuteSwap ==
    \E amountIn \in SwapAmounts, tokenIn \in {"A", "B"}, minAmountOut \in MinAmountsOut :
        /\ PoolStep("executeSwap", <<amountIn, tokenIn, minAmountOut>>,
                    executeSwap(amountIn, tokenIn, minAmountOut))
        /\ UNCHANGED <<lpHeld, poolCreated>>

AddLiquidity ==
    \E p \in IF lpTokenSupply = Zero THEN AmountPairs ELSE AddPairs :
        LET out == addLiquidity(p[1], p[2])
        IN  /\ PoolStep("addLiquidity", p, out)
            /\ lpHeld' = IF out.err = "none"
                         THEN Plus(lpHeld, out.ret.lpTokensReceived) ELSE lpHeld
            /\ poolCreated' = (poolCreated \/ (lpTokenSupply = Zero /\ out.err = "none"))

RemoveLiquidity ==
    \E lpTokens \in LpAmounts :
        LET out == removeLiquidity(lpTokens)
        IN  /\ PoolStep("removeLiquidity", <<lpTokens>>, out)
            /\ lpHeld' = IF out.err = "none" THEN Minus(lpHeld, lpTokens) ELSE lpHeld
            /\ UNCHANGED poolCreated

PoolReset ==
    /\ PoolStep("reset", <<>>, poolReset)
    /\ lpHeld' = Zero
    /\ poolCreated' = FALSE

\* the queries: the pool is as it was
GetAmountOut ==
    \E amountIn \in SwapAmounts, tokenIn \in {"A", "B"} :
        LET out == getAmountOut(amountIn, tokenIn)
        IN  /\ PoolStep("getAmountOut", <<amountIn, tokenIn>>,
                        [err |-> out.err, pool |-> PoolNow, ret |-> out.ret])
            /\ UNCHANGED <<lpHeld, poolCreated>>

\* asked for nothing, for the whole reserve, or for what getAmountOut has
\* just quoted
GetAmountIn ==
    \E tokenOut \in {"A", "B"} :
        \E amountOut \in
              {Zero, IF tokenOut = "A" THEN tokenAReserve ELSE tokenBReserve}
              \cup (IF last.op = "getAmountOut" /\ last.err = "none"
                    THEN {last.ret} ELSE {}) :
            LET out == getAmountIn(amountOut, tokenOut)
            IN  /\ PoolStep("getAmountIn", <<amountOut, tokenOut>>,
                            [err |-> out.err, pool |-> PoolNow, ret |-> out.ret])
                /\ UNCHANGED <<lpHeld, poolCreated>>

SetFee ==
    \E newFee \in FeeUpdates :
        LET out == setFee(newFee)
        IN  /\ steps < MaxPoolCalls
            /\ steps' = steps + 1
            /\ fee' = out.fee
            /\ last' = [op |-> "setFee", args |-> <<newFee>>, err |-> out.err,
                        ret |-> <<>>]
            /\ UNCHANGED <<tokenAReserve, tokenBReserve, lpTokenSupply, lpHeld,
                           poolCreated, ledger, mmVars>>

NoCall == [op |-> "new", args |-> <<>>, err |-> "none", ret |-> <<>>]

DEFAULT_POOL_FEE == Rat(3, 1000)

\* new LiquidityPool(poolFee)
NewPool(poolFee) ==
    /\ tokenAReserve = Zero
    /\ tokenBReserve = Zero
    /\ lpTokenSupply = Zero
    /\ fee = poolFee
    /\ lpHeld = Zero
    /\ poolCreated = FALSE

\* the fields of a coordinator record, as the state
IsMarketMaker(self) ==
    /\ mmConfig = self.config
    /\ spreadConfig = self.spreadCalculator.config
    /\ ledger = self.inventoryController
    /\ orders = self.orders
    /\ activeOrders = self.activeOrders
    /\ tradeHistory = self.tradeHistory
    /\ isRunning = self.isRunning
    /\ totalVolume = self.totalVolume
    /\ realizedPnL = self.realizedPnL
    /\ nextId = self.nextId

EmptyConfig == [x \in {} |-> Zero]

PoolInit ==
    /\ \E poolFee \in PoolFees : NewPool(poolFee)
    /\ IsMarketMaker(MarketMaker(EmptyConfig))
    /\ last = NoCall
    /\ steps = 0

PoolNext ==
    \/ Initialize \/ ExecuteSwap \/ AddLiquidity \/ RemoveLiquidity \/ PoolReset
    \/ GetAmountOut \/ GetAmountIn \/ SetFee

PoolSpec == PoolInit /\ [][PoolNext]_vars

\* the pool under its mutating methods alone
PoolMutationNext ==
    \/ Initialize \/ ExecuteSwap \/ AddLiquidity \/ RemoveLiquidity \/ PoolReset
    \/ SetFee

PoolMutationSpec == PoolInit /\ [][PoolMutationNext]_vars

\* A pool with one deep side: 2^28 of one token against 2^-8 of the other
\* (k = 2^20, initial liquidity 1024).  The deep side is paid a reserve-sized
\* amount or dust, 2^-28 or 2^-29.
DeepPairs ==
    { <<R(TWO_POW_28), Rat(1, 256)>>, <<Rat(1, 256), R(TWO_POW_28)>>,
      <<R(0), R(TWO_POW_28)>> }
DeepSwapAmounts == { R(TWO_POW_28), Rat(1, TWO_POW_28), Rat(1, 2 * TWO_POW_28) }

DeepInitialize ==
    \E p \in DeepPairs :
        LET out == initialize(p[1], p[2])
        IN  /\ PoolStep("initialize", p, out)
            /\ lpHeld' = IF out.err = "none"
                         THEN Plus(lpHeld, out.ret.lpTokensReceived) ELSE lpHeld
            /\ poolCreated' = (poolCreated \/ out.err = "none")

DeepSwap ==
    \E amountIn \in DeepSwapAmounts, tokenIn \in {"A", "B"}, minAmountOut \in MinAmountsOut :
        /\ LET reserveIn == IF tokenIn = "A" THEN tokenAReserve ELSE tokenBReserve
           IN  reserveIn.n \div TWO_POW_28 >= reserveIn.d
        /\ PoolStep("executeSwap", <<amountIn, tokenIn, minAmountOut>>,
                    executeSwap(amountIn, tokenIn, minAmountOut))
        /\ UNCHANGED <<lpHeld, poolCreated>>

\* the pool is constructed with a fee in [0, 1)
DeepPoolInit ==
    /\ \E poolFee \in {Zero, Half} : NewPool(poolFee)
    /\ IsMarketMaker(MarketMaker(EmptyConfig))
    /\ last = NoCall
    /\ steps = 0

DeepPoolNext == DeepInitialize \/ DeepSwap \/ PoolReset \/ SetFee

DeepPoolSpec == DeepPoolInit /\ [][DeepPoolNext]_vars

----------------------------------------------------------------------------
(* The InventoryController on its own, as a state machine.                 *)

MaxLedgerCalls == 3

\* Partial<InventoryConfig> values given to the constructor and to updateConfig
InventoryConfigs ==
    { EmptyConfig,
      [maxInventory |-> R(200), minInventory |-> R(-200)],
      [maxInventory |-> R(100)],
      [minInventory |-> R(0)],
      [targetInventory |-> R(500)] }

TradeSizes == { R(50), R(150), R(1200) }
TradePrices == { R(1), R(2) }
Inventories == { R(-5000), R(0), R(150), R(5000) }

LedgerStep(op, args, self) ==
    /\ steps < MaxLedgerCalls
    /\ steps' = steps + 1
    /\ ledger' = self
    /\ last' = [op |-> op, args |-> args, err |-> "none", ret |-> <<>>]
    /\ UNCHANGED <<poolVars, mmVars>>

UpdateInventory ==
    \E side \in {"buy", "sell"}, price \in TradePrices, size \in TradeSizes :
        LET trade == [side |-> side, price |-> price, size |-> size, fee |-> Zero]
        IN  LedgerStep("updateInventory", <<trade>>, updateInventory(ledger, trade))

SetInventory ==
    \E inventory \in Inventories :
        LedgerStep("setInventory", <<inventory>>, setInventory(ledger, inventory))

InventoryUpdateConfig ==
    \E config \in InventoryConfigs :
        LedgerStep("updateConfig", <<config>>, inventoryUpdateConfig(ledger, config))

InventoryReset == LedgerStep("reset", <<>>, inventoryReset(ledger))

LedgerInit ==
    /\ NewPool(DEFAULT_POOL_FEE)
    /\ \E config \in InventoryConfigs :
          /\ IsMarketMaker([MarketMaker(EmptyConfig) EXCEPT
                              !.inventoryController = InventoryController(config)])
    /\ last = NoCall
    /\ steps = 0

LedgerNext == UpdateInventory \/ SetInventory \/ InventoryUpdateConfig \/ InventoryReset

LedgerSpec == LedgerInit /\ [][LedgerNext]_vars

----------------------------------------------------------------------------
(* The InventoryController late in a run: a controller that has already   *)
(* taken HISTORY_CAP - 1 trades, so that the next calls fill its trade     *)
(* history to the cap and beyond.                                          *)

\* the k-th trade of the run so far: buys and sells of 1, 2 or 3 units
PastTrade(k) ==
    [side |-> IF k % 2 = 1 THEN "buy" ELSE "sell",
     price |-> R(1 + (k % 2)),
     size |-> R(1 + (k % 3)),
     fee |-> Zero]

\* the controller after updateInventory(PastTrade(lo)), ...,
\* updateInventory(PastTrade(hi)), in that order
RECURSIVE updateInventoryEach(_, _, _)
updateInventoryEach(self, lo, hi) ==
    IF lo > hi THEN self
    ELSE IF lo = hi THEN updateInventory(self, PastTrade(lo))
    \* the first half of the calls is evaluated before the second is begun
    ELSE LET mid == (lo + hi) \div 2
             half == updateInventoryEach(self, lo, mid)
         IN  IF Len(half.tradeHistory) >= 0
             THEN updateInventoryEach(half, mid + 1, hi)
             ELSE half

AgedLedgerInit ==
    /\ NewPool(DEFAULT_POOL_FEE)
    /\ IsMarketMaker([MarketMaker(EmptyConfig) EXCEPT
                         !.inventoryController =
                             updateInventoryEach(InventoryController(EmptyConfig),
                                                 1, HISTORY_CAP - 1)])
    /\ last = NoCall
    /\ steps = 0

AgedLedgerSpec == AgedLedgerInit /\ [][LedgerNext]_vars

----------------------------------------------------------------------------
(* The SpreadCalculator on its own, as a state machine.                    *)

MaxSpreadCalls == 2

\* Partial<SpreadConfig> values given to the constructor and to updateConfig,
\* which take any: the skew multiplier 1 and 0, minSpread = maxSpread and
\* minSpread > maxSpread
SpreadConfigs ==
    { EmptyConfig,
      [inventorySkewMultiplier |-> One],
      [inventorySkewMultiplier |-> Zero],
      [minSpread |-> Rat(2, 100)],
      [minSpread |-> Rat(1, 10)] }

\* thin, middling and deep markets, calm and volatile
MarketSnapshots ==
    { [volume24h |-> R(0), volatility |-> Zero],
      [volume24h |-> R(999999), volatility |-> Rat(1, 100)],
      [volume24h |-> R(999999), volatility |-> Rat(2, 100)],
      [volume24h |-> R(3999999), volatility |-> Rat(5, 100)] }

InventoryRatios == { Zero, Rat(1, 4), Half, Rat(3, 4), One }

SpreadStep(op, args, self, ret) ==
    /\ steps < MaxSpreadCalls
    /\ steps' = steps + 1
    /\ spreadConfig' = self.config
    /\ last' = [op |-> op, args |-> args, err |-> "none", ret |-> ret]
    /\ UNCHANGED <<poolVars, ledger, mmConfig, orders, activeOrders, tradeHistory,
                   isRunning, totalVolume, realizedPnL, nextId>>

CalculateOptimalSpread ==
    \E marketData \in MarketSnapshots, inventoryRatio \in InventoryRatios :
        LET self == [config |-> spreadConfig]
            inventoryState == [inventoryRatio |-> inventoryRatio]
        IN  SpreadStep("calculateOptimalSpread", <<marketData, inventoryState>>, self,
                       calculateOptimalSpread(self, marketData, inventoryState))

SpreadUpdateConfig ==
    \E config \in SpreadConfigs :
        SpreadStep("updateConfig", <<config>>,
                   spreadUpdateConfig([config |-> spreadConfig], config), <<>>)

SpreadInit ==
    /\ NewPool(DEFAULT_POOL_FEE)
    /\ \E config \in SpreadConfigs :
          IsMarketMaker([MarketMaker(EmptyConfig) EXCEPT
                            !.spreadCalculator = SpreadCalculator(config)])
    /\ last = NoCall
    /\ steps = 0

SpreadNext == CalculateOptimalSpread \/ SpreadUpdateConfig

SpreadSpec == SpreadInit /\ [][SpreadNext]_vars

----------------------------------------------------------------------------
(* The MarketMaker coordinator as a state machine.                         *)

MaxPlacements == 1
MaxFills == 2

\* Partial<MarketMakerConfig> values given to the constructor
MarketMakerConfigs ==
    { EmptyConfig,
      [inventory |-> [maxInventory |-> R(200), minInventory |-> R(-200)]] }
\* ... and to updateConfig
ConfigUpdates == { [inventory |-> [maxInventory |-> R(100)]] }

RestingQuote ==
    [bidPrice |-> R(1), bidSize |-> R(100), askPrice |-> R(2), askSize |-> R(200)]
Quotes ==
    { RestingQuote,
      [bidPrice |-> R(1), bidSize |-> R(5), askPrice |-> R(2), askSize |-> R(600)] }
MarketDatas == { [bidPrice |-> R(1), askPrice |-> R(2)] }
\* 50.004 and 150
FillSizes == { Rat(12501, 250), R(150) }

\* the pool calls of the coordinator that change the pool
PoolCalls == {"initializeLiquidityPool", "addLiquidity", "removeLiquidity", "executeSwap"}

MMNow ==
    [config |-> mmConfig, spreadCalculator |-> [config |-> spreadConfig],
     inventoryController |-> ledger, orders |-> orders,
     activeOrders |-> activeOrders, tradeHistory |-> tradeHistory,
     isRunning |-> isRunning, totalVolume |-> totalVolume,
     realizedPnL |-> realizedPnL, nextId |-> nextId]

\* the call is not recorded: the coordinator's claims are stated on its state
\* and on the outcome of a method in that state.  steps counts the fills made.
MMStep(op, args, out) ==
    /\ mmConfig' = out.self.config
    /\ spreadConfig' = out.self.spreadCalculator.config
    /\ ledger' = out.self.inventoryController
    /\ orders' = out.self.orders
    /\ activeOrders' = out.self.activeOrders
    /\ tradeHistory' = out.self.tradeHistory
    /\ isRunning' = out.self.isRunning
    /\ totalVolume' = out.self.totalVolume
    /\ realizedPnL' = out.self.realizedPnL
    /\ nextId' = out.self.nextId
    /\ steps' = IF \/ op \in {"processFill", "executeRebalance"} /\ out.ret # Null
                   \/ op \in PoolCalls /\ out.out.err = "none"
                THEN steps + 1 ELSE steps
    /\ UNCHANGED last

PlaceOrders ==
    /\ nextId < 2 * MaxPlacements
    /\ \E quote \in Quotes :
          MMStep("placeOrders", <<quote>>, placeOrders(MMNow, quote))
    /\ UNCHANGED poolVars

\* the ids handed out so far and one that no order has; a resting order
\* fills at its own price
ProcessFill ==
    /\ steps < MaxFills
    /\ \E orderId \in 1 .. nextId, filledSize \in FillSizes :
          LET fillPrice == IF orderId \in DOMAIN orders THEN orders[orderId].price
                           ELSE R(1)
          IN  MMStep("processFill", <<orderId, filledSize, fillPrice>>,
                     processFill(MMNow, orderId, filledSize, fillPrice))
    /\ UNCHANGED poolVars

CancelOrder ==
    /\ \E orderId \in 1 .. nextId :
          MMStep("cancelOrder", <<orderId>>, cancelOrder(MMNow, orderId))
    /\ UNCHANGED poolVars

CancelAllOrders ==
    /\ MMStep("cancelAllOrders", <<>>, cancelAllOrders(MMNow))
    /\ UNCHANGED poolVars

Start ==
    /\ MMStep("start", <<>>, start(MMNow))
    /\ UNCHANGED poolVars

Stop ==
    /\ MMStep("stop", <<>>, stop(MMNow))
    /\ UNCHANGED poolVars

ExecuteRebalance ==
    /\ steps < MaxFills
    /\ \E marketData \in MarketDatas :
          MMStep("executeRebalance", <<marketData>>, executeRebalance(MMNow, marketData))
    /\ UNCHANGED poolVars

UpdateConfig ==
    /\ \E config \in ConfigUpdates :
          MMStep("updateConfig", <<config>>, updateConfig(MMNow, config))
    /\ UNCHANGED poolVars

Reset ==
    /\ MMStep("reset", <<>>, mmReset(MMNow))
    /\ tokenAReserve' = poolReset.pool.tokenAReserve
    /\ tokenBReserve' = poolReset.pool.tokenBReserve
    /\ lpTokenSupply' = poolReset.pool.lpTokenSupply
    /\ lpHeld' = Zero
    /\ poolCreated' = FALSE
    /\ UNCHANGED fee

Init ==
    /\ NewPool(DEFAULT_POOL_FEE)
    /\ \E config \in MarketMakerConfigs : IsMarketMaker(MarketMaker(config))
    /\ last = NoCall
    /\ steps = 0

Next ==
    \/ PlaceOrders \/ ProcessFill \/ CancelOrder \/ CancelAllOrders \/ Start \/ Stop
    \/ ExecuteRebalance \/ UpdateConfig \/ Reset

Spec == Init /\ [][Next]_vars

\* a coordinator that quotes, is filled, cancels and is started and stopped,
\* with the configuration it was constructed with
CancelNext ==
    \/ PlaceOrders \/ ProcessFill \/ CancelOrder \/ CancelAllOrders \/ Start \/ Stop

CancelSpec == Init /\ [][CancelNext]_vars

\* A coordinator whose orders are placed, filled and cancelled, and nothing
\* else, from its construction on; it quotes again after its fills.
MaxRequotes == 2

Requote ==
    /\ nextId < 2 * MaxRequotes
    /\ \E quote \in Quotes :
          MMStep("placeOrders", <<quote>>, placeOrders(MMNow, quote))
    /\ UNCHANGED poolVars

FillNext == Requote \/ ProcessFill \/ CancelOrder

FillSpec == Init /\ [][FillNext]_vars

----------------------------------------------------------------------------
(* The coordinator with its pool: orders are placed, filled and cancelled  *)
(* while liquidity is added, removed and swapped through the coordinator.  *)
(* steps counts the fills and the pool calls that succeeded.               *)

ProxyPairs == { <<R(1000), R(4000)>>, <<R(0), R(1000)>> }
\* the pool of the coordinator has the default fee 0.003: 1000000/997 is the
\* amount that puts 1000 into the reserve
ProxySwaps ==
    { <<Rat(1000000, 997), "A", R(0)>>, <<Rat(1000000, 997), "A", R(3000)>>,
      <<R(0), "A", R(0)>> }
ProxyLpAmounts == { R(500), R(0) }

\* res is what the coordinator's method gives; held is the LP tokens the
\* callers hold after it
ProxyStep(op, args, res, held) ==
    /\ steps < MaxFills
    /\ MMStep(op, args, res)
    /\ tokenAReserve' = res.out.pool.tokenAReserve
    /\ tokenBReserve' = res.out.pool.tokenBReserve
    /\ lpTokenSupply' = res.out.pool.lpTokenSupply
    /\ fee' = fee
    /\ lpHeld' = IF res.out.err = "none" THEN held ELSE lpHeld

InitializeLiquidityPool ==
    \E p \in ProxyPairs :
        LET res == initializeLiquidityPool(MMNow, p[1], p[2])
        IN  /\ ProxyStep("initializeLiquidityPool", p, res,
                         Plus(lpHeld, res.out.ret.lpTokensReceived))
            /\ poolCreated' = (poolCreated \/ res.out.err = "none")

MMAddLiquidity ==
    \E p \in ProxyPairs :
        LET res == mmAddLiquidity(MMNow, p[1], p[2])
        IN  /\ ProxyStep("addLiquidity", p, res,
                         Plus(lpHeld, res.out.ret.lpTokensReceived))
            /\ poolCreated' = (poolCreated \/ (lpTokenSupply = Zero /\ res.out.err = "none"))

MMRemoveLiquidity ==
    \E lpTokens \in ProxyLpAmounts :
        /\ ProxyStep("removeLiquidity", <<lpTokens>>, mmRemoveLiquidity(MMNow, lpTokens),
                     Minus(lpHeld, lpTokens))
        /\ UNCHANGED poolCreated

MMExecuteSwap ==
    \E swap \in ProxySwaps :
        /\ ProxyStep("executeSwap", swap, mmExecuteSwap(MMNow, swap[1], swap[2], swap[3]),
                     lpHeld)
        /\ UNCHANGED poolCreated

GetPoolState ==
    /\ ProxyStep("getPoolState", <<>>, getPoolState(MMNow), lpHeld)
    /\ UNCHANGED poolCreated

PoolProxyNext ==
    \/ PlaceOrders \/ ProcessFill \/ CancelOrder
    \/ InitializeLiquidityPool \/ MMAddLiquidity \/ MMRemoveLiquidity \/ MMExecuteSwap
    \/ GetPoolState

\* new MarketMaker(): the pool is new LiquidityPool()
PoolProxyInit ==
    /\ NewPool(DEFAULT_POOL_FEE)
    /\ IsMarketMaker(MarketMaker(EmptyConfig))
    /\ last = NoCall
    /\ steps = 0

PoolProxySpec == PoolProxyInit /\ [][PoolProxyNext]_vars

----------------------------------------------------------------------------
(* The MarketMaker late in a run: RestingQuote has been placed and its bid  *)
(* has been filled HISTORY_CAP - 1 times, a tenth of a unit each time, so   *)
(* that the next fills take the count of trades to the cap and beyond.      *)

PastFillSize == Rat(1, 10)

\* the coordinator after processFill(orderId, PastFillSize, price) has been
\* called hi - lo + 1 times
RECURSIVE processFillEach(_, _, _, _)
processFillEach(self, orderId, lo, hi) ==
    IF lo > hi THEN self
    ELSE IF lo = hi
         THEN processFill(self, orderId, PastFillSize, self.orders[orderId].price).self
    \* the first half of the calls is evaluated before the second is begun
    ELSE LET mid == (lo + hi) \div 2
             half == processFillEach(self, orderId, lo, mid)
         IN  IF Len(half.tradeHistory) >= 0
             THEN processFillEach(half, orderId, mid + 1, hi)
             ELSE half

AgedInit ==
    /\ NewPool(DEFAULT_POOL_FEE)
    /\ \E config \in MarketMakerConfigs :
          LET placed == placeOrders(MarketMaker(config), RestingQuote)
          IN  IsMarketMaker(processFillEach(placed.self, placed.ret.bidOrder.id,
                                            1, HISTORY_CAP - 1))
    /\ last = NoCall
    /\ steps = 0

\* the run goes on with the orders it has
AgedNext ==
    \/ ProcessFill \/ CancelOrder \/ CancelAllOrders \/ Start \/ Stop
    \/ ExecuteRebalance \/ UpdateConfig \/ Reset

AgedSpec == AgedInit /\ [][AgedNext]_vars

----------------------------------------------------------------------------
(* Properties.                                                             *)

PoolUnchanged == UNCHANGED <<tokenAReserve, tokenBReserve, lpTokenSupply>>

\* the pool's fields are numbers (no division by zero has reached them), and
\* a pool with LP supply has reserves that are not 0
PoolNumbers ==
    /\ \A x \in {tokenAReserve, tokenBReserve, lpTokenSupply, fee} : x.d > 0
    /\ lpTokenSupply # Zero => (tokenAReserve # Zero /\ tokenBReserve # Zero)

\* C1: after updateInventory(trade), size > 0, on any ledger whose limits
\* satisfy minInventory <= maxInventory, currentInventory lies in
\* [minInventory, maxInventory]: an overshoot is capped, not raised.
C1_InventoryWithinLimits ==
    [][(/\ last'.op = "updateInventory"
        /\ Gt(last'.args[1].size, Zero)
        /\ Le(ledger.config.minInventory, ledger.config.maxInventory))
       => /\ Ge(ledger'.currentInventory, ledger'.config.minInventory)
          /\ Le(ledger'.currentInventory, ledger'.config.maxInventory)]_vars

\* max 1000, min -1000, inventory 0, buy 1200: capped at 1000
C1_CappedAtMax ==
    /\ steps = 1
    /\ last.op = "updateInventory"
    /\ last.args[1].side = "buy"
    /\ last.args[1].size = R(1200)
    /\ ledger.config = DEFAULT_INVENTORY_CONFIG
    /\ ledger.currentInventory = R(1000)

PoolProduct == Times(tokenAReserve, tokenBReserve)

\* C2: a successful executeSwap on an initialized pool with fee in (0,1)
\* leaves tokenAReserve * tokenBReserve strictly greater than before; with
\* fee = 0 the product is unchanged.
C2_ProductGrowsWithFee ==
    [][(/\ last'.op = "executeSwap"
        /\ last'.err = "none"
        /\ Gt(lpTokenSupply, Zero)
        /\ Ge(fee, Zero) /\ Lt(fee, One))
       => IF Gt(fee, Zero) THEN Lt(PoolProduct, PoolProduct')
          ELSE PoolProduct' = PoolProduct]_vars

\* C3: executeSwap throws the slippage error whenever the quote of
\* simulateSwap in the same state has amountOut < minAmountOut, and then the
\* pool is as it was; when it succeeds the input reserve has grown by the
\* quoted amountIn less the quoted fee and the output reserve has shrunk by
\* the quoted amountOut, the LP supply is as it was.
C3_SlippageGuard ==
    [][last'.op = "executeSwap" =>
       LET amountIn == last'.args[1]
           tokenIn == last'.args[2]
           minAmountOut == last'.args[3]
           quote == simulateSwap(amountIn, tokenIn)
           reserveIn == IF tokenIn = "A" THEN tokenAReserve ELSE tokenBReserve
           reserveOut == IF tokenIn = "A" THEN tokenBReserve ELSE tokenAReserve
           reserveInAfter == IF tokenIn = "A" THEN tokenAReserve' ELSE tokenBReserve'
           reserveOutAfter == IF tokenIn = "A" THEN tokenBReserve' ELSE tokenAReserve'
       IN  /\ (quote.err = "none" /\ Lt(quote.amountOut, minAmountOut))
                => (last'.err = "Slippage exceeded" /\ PoolUnchanged)
           /\ last'.err # "none" => PoolUnchanged
           /\ last'.err = "none"
                => /\ last'.ret = quote
                   /\ reserveInAfter = Minus(Plus(reserveIn, quote.amountIn), quote.fee)
                   /\ reserveOutAfter = Minus(reserveOut, quote.amountOut)
                   /\ lpTokenSupply' = lpTokenSupply]_vars

\* a swap refused for slippage on an initialized pool
C3_SlippageRejected ==
    /\ last.op = "executeSwap"
    /\ last.err = "Slippage exceeded"
    /\ Gt(lpTokenSupply, Zero)

\* C4: every order has 0 <= filledSize <= size, whatever positive fills
\* processFill has applied to it.
C4_FilledWithinSize ==
    \A id \in DOMAIN orders :
        /\ Ge(orders[id].filledSize, Zero)
        /\ Le(orders[id].filledSize, orders[id].size)

\* C5: when needsRebalancing() holds, executeRebalance returns a Trade (a buy
\* at the ask below target, a sell at the bid above it) and leaves the
\* inventory strictly closer to targetInventory; otherwise it returns null
\* and changes nothing.
C5_RebalanceCorrects ==
    \A marketData \in MarketDatas :
        LET out == executeRebalance(MMNow, marketData)
            target == ledger.config.targetInventory
            below == Lt(ledger.currentInventory, target)
            before == RAbs(Minus(ledger.currentInventory, target))
            after == RAbs(Minus(out.self.inventoryController.currentInventory, target))
        IN  IF needsRebalancing(ledger)
            THEN /\ out.ret # Null
                 /\ out.ret[1].side = (IF below THEN "buy" ELSE "sell")
                 /\ out.ret[1].price = (IF below THEN marketData.askPrice
                                        ELSE marketData.bidPrice)
                 /\ Lt(after, before)
            ELSE out.ret = Null /\ out.self = MMNow

Removed == DOMAIN orders \ activeOrders

\* C6: an order removed from the open-order table never comes back and its
\* status never changes again; processFill and cancelOrder with its id
\* return null / false and change nothing.
C6_RemovedIsFinal ==
    /\ [][\A id \in Removed :
            /\ id \notin activeOrders'
            /\ id \in DOMAIN orders'
            /\ orders'[id].status = orders[id].status]_vars
    /\ [](\A id \in Removed :
            /\ cancelOrder(MMNow, id) = [self |-> MMNow, ret |-> FALSE]
            /\ \A filledSize \in FillSizes :
                   processFill(MMNow, id, filledSize, orders[id].price)
                       = [self |-> MMNow, ret |-> Null])

\* one order filled and one cancelled, both out of the table
C6_FilledAndCancelled ==
    /\ \E id \in Removed : orders[id].status = "filled"
    /\ \E id \in Removed : orders[id].status = "cancelled"

\* C7: initialize(a, b) throws and leaves the pool as it was when the pool
\* holds LP supply, or a <= 0 or b <= 0, or sqrt(a * b) < MINIMUM_LIQUIDITY;
\* otherwise the reserves are (a, b), getPrice() is b / a and lpTokenSupply
\* is sqrt(a * b) - MINIMUM_LIQUIDITY.
C7_InitializeContract ==
    [][last'.op = "initialize" =>
       LET a == last'.args[1]
           b == last'.args[2]
           floor == R(MINIMUM_LIQUIDITY)
           refused == \/ Gt(lpTokenSupply, Zero)
                      \/ Le(a, Zero) \/ Le(b, Zero)
                      \/ Lt(Times(a, b), Times(floor, floor))
       IN  IF refused
           THEN last'.err # "none" /\ PoolUnchanged
           ELSE /\ last'.err = "none"
                /\ tokenAReserve' = a
                /\ tokenBReserve' = b
                /\ getPrice' = Over(b, a)
                /\ Ge(lpTokenSupply', Zero)
                /\ Times(Plus(lpTokenSupply', floor), Plus(lpTokenSupply', floor))
                       = Times(a, b)]_vars

\* initialize(1000, 4000): supply sqrt(4000000) - 1000 = 1000, price 4
C7_Initialized ==
    /\ last.op = "initialize"
    /\ last.err = "none"
    /\ last.args = <<R(1000), R(4000)>>
    /\ lpTokenSupply = R(1000)
    /\ getPrice = R(4)

\* C8: both reserves and the LP supply are >= 0, and lpTokenSupply is 0
\* exactly when both reserves are 0.
C8_SupplyZeroIffEmpty ==
    /\ Ge(tokenAReserve, Zero)
    /\ Ge(tokenBReserve, Zero)
    /\ Ge(lpTokenSupply, Zero)
    /\ (lpTokenSupply = Zero) <=> (tokenAReserve = Zero /\ tokenBReserve = Zero)

\* C9: once initialize has succeeded, a removeLiquidity that burns no more
\* LP tokens than depositors hold never brings a reserve to zero: the
\* MINIMUM_LIQUIDITY share stays in the pool.
C9_FloorStaysLocked ==
    [][(/\ last'.op = "removeLiquidity"
        /\ poolCreated
        /\ Ge(lpHeld', Zero)
        /\ Gt(tokenAReserve, Zero) /\ Gt(tokenBReserve, Zero))
       => (Gt(tokenAReserve', Zero) /\ Gt(tokenBReserve', Zero))]_vars

\* C10: removeLiquidity(lpTokens) throws and leaves the pool as it was when
\* lpTokens <= 0 or lpTokens > lpTokenSupply; otherwise it burns lpTokens
\* and pays reserve * lpTokens / lpTokenSupply of each token.
C10_RemoveLiquidityContract ==
    [][last'.op = "removeLiquidity" =>
       LET lpTokens == last'.args[1]
           shareRatio == Over(lpTokens, lpTokenSupply)
           shareA == Times(tokenAReserve, shareRatio)
           shareB == Times(tokenBReserve, shareRatio)
       IN  IF Le(lpTokens, Zero) \/ Gt(lpTokens, lpTokenSupply)
           THEN last'.err # "none" /\ PoolUnchanged
           ELSE /\ last'.err = "none"
                /\ last'.ret.lpTokensBurned = lpTokens
                /\ last'.ret.tokenAReceived = shareA
                /\ last'.ret.tokenBReceived = shareB
                /\ lpTokenSupply' = Minus(lpTokenSupply, lpTokens)
                /\ tokenAReserve' = Minus(tokenAReserve, shareA)
                /\ tokenBReserve' = Minus(tokenBReserve, shareB)]_vars

\* a removal of part of the supply from a pool with unequal reserves
C10_PartialRemoval ==
    /\ last.op = "removeLiquidity"
    /\ last.err = "none"
    /\ Gt(lpTokenSupply, Zero)
    /\ tokenAReserve # tokenBReserve

\* C11: initialize, executeSwap and addLiquidity on a pool with LP supply
\* fail when given an amount <= 0, and leave reserves and LP supply as they
\* were.  (Any error counts as the failure.)
C11_NonPositiveAmountsRejected ==
    [][(\/ /\ last'.op = "initialize"
           /\ (Le(last'.args[1], Zero) \/ Le(last'.args[2], Zero))
        \/ /\ last'.op = "executeSwap"
           /\ Le(last'.args[1], Zero)
        \/ /\ last'.op = "addLiquidity"
           /\ Gt(lpTokenSupply, Zero)
           /\ (Le(last'.args[1], Zero) \/ Le(last'.args[2], Zero)))
       => (last'.err # "none" /\ PoolUnchanged)]_vars

\* C12: addLiquidity(a, b), a, b > 0, on a pool with LP supply > 0 deposits
\* (a', b') with a' <= a, b' <= b and b' / a' the pool's reserve ratio, and
\* mints min(a' * supply / reserveA, b' * supply / reserveB) LP tokens.
C12_AddLiquidityContract ==
    [][(/\ last'.op = "addLiquidity"
        /\ Gt(last'.args[1], Zero) /\ Gt(last'.args[2], Zero)
        /\ Gt(lpTokenSupply, Zero))
       => LET a == last'.ret.tokenADeposited
              b == last'.ret.tokenBDeposited
              minted == last'.ret.lpTokensReceived
          IN  /\ last'.err = "none"
              /\ Gt(a, Zero) /\ Le(a, last'.args[1])
              /\ Gt(b, Zero) /\ Le(b, last'.args[2])
              /\ Over(b, a) = Over(tokenBReserve, tokenAReserve)
              /\ minted = RMin(Over(Times(a, lpTokenSupply), tokenAReserve),
                               Over(Times(b, lpTokenSupply), tokenBReserve))
              /\ tokenAReserve' = Plus(tokenAReserve, a)
              /\ tokenBReserve' = Plus(tokenBReserve, b)
              /\ lpTokenSupply' = Plus(lpTokenSupply, minted)]_vars

\* a deposit cut down to the pool's ratio: less of token B taken than offered
C12_DepositRebalanced ==
    /\ last.op = "addLiquidity"
    /\ last.err = "none"
    /\ last.ret.shareOfPool # One
    /\ last.ret.tokenADeposited = last.args[1]
    /\ Gt(last.ret.tokenBDeposited, Zero)
    /\ Lt(last.ret.tokenBDeposited, last.args[2])

\* C13: the pool's fee is in [0,1) in every state; a fee outside [0,1)
\* given to the constructor or to setFee never becomes the pool's fee.
C13_FeeInRange == Ge(fee, Zero) /\ Lt(fee, One)

OtherToken(t) == IF t = "A" THEN "B" ELSE "A"

\* C14: on a pool with LP supply and fee in [0,1), for x > 0,
\* getAmountIn(getAmountOut(x, 'A'), 'B') = x and
\* getAmountIn(getAmountOut(x, 'B'), 'A') = x.
C14_AmountInInvertsAmountOut ==
    [][(/\ Gt(lpTokenSupply, Zero) /\ Ge(fee, Zero) /\ Lt(fee, One)
        /\ last.op = "getAmountOut"
        /\ Gt(last.args[1], Zero)
        /\ last'.op = "getAmountIn"
        /\ last'.args = <<last.ret, OtherToken(last.args[2])>>)
       => /\ last.err = "none"
          /\ last'.err = "none"
          /\ last'.ret = last.args[1]]_vars

\* reserves (1000, 4000), fee 1/2: 1000 A buys 4000/3 B, and 4000/3 B costs
\* 1000 A
C14_RoundTripWithFee ==
    /\ Gt(lpTokenSupply, Zero)
    /\ fee = Half
    /\ tokenAReserve = R(1000) /\ tokenBReserve = R(4000)
    /\ getAmountOut(R(1000), "A") = [err |-> "none", ret |-> Rat(4000, 3)]
    /\ last.op = "getAmountIn"
    /\ last.args = <<Rat(4000, 3), "B">>
    /\ last.ret = R(1000)

\* C17: when updateInventory takes the position through zero (long to short
\* or short to long), avgEntryPrice after the call is the trade's own price.
C17_FlipTakesTradePrice ==
    [][(/\ last'.op = "updateInventory"
        /\ \/ Gt(ledger.currentInventory, Zero) /\ Lt(ledger'.currentInventory, Zero)
           \/ Lt(ledger.currentInventory, Zero) /\ Gt(ledger'.currentInventory, Zero))
       => ledger'.avgEntryPrice = last'.args[1].price]_vars

\* C18: a buy whose resulting position is <= 0 and a sell whose resulting
\* position is >= 0 leave avgEntryPrice as it was; a buy that extends a long
\* and a sell that extends a short set it to the mean of the previous
\* average and the trade price, weighted by the pre-trade position and the
\* trade size.
C18_AvgEntryPriceFrame ==
    [][last'.op = "updateInventory" =>
       LET trade == last'.args[1]
           before == ledger.currentInventory
           after == ledger'.currentInventory
           weighted == Over(Plus(Times(ledger.avgEntryPrice, RAbs(before)),
                                 Times(trade.price, trade.size)),
                            Plus(RAbs(before), trade.size))
       IN  /\ (\/ trade.side = "buy" /\ Le(after, Zero)
               \/ trade.side = "sell" /\ Ge(after, Zero))
                  => ledger'.avgEntryPrice = ledger.avgEntryPrice
           /\ (\/ trade.side = "buy" /\ Gt(before, Zero)
               \/ trade.side = "sell" /\ Lt(before, Zero))
                  => ledger'.avgEntryPrice = weighted]_vars

\* C19: the ledger's trade history never holds more than 1000 entries; the
\* updateInventory that would make it 1001 leaves the 500 most recent
\* trades, in their order, and any other just appends the trade.
C19_HistoryCapped ==
    [][last'.op = "updateInventory" =>
       LET pushed == Append(ledger.tradeHistory, last'.args[1])
       IN  /\ Len(ledger'.tradeHistory) <= 1000
           /\ ledger'.tradeHistory =
                  IF Len(pushed) = 1001 THEN SubSeq(pushed, 502, 1001) ELSE pushed]_vars

\* the 1001st trade has just been taken: 500 entries are left, from the
\* 502nd trade of the run to the 1000th and the one just taken
C19_HistoryTruncated ==
    /\ steps = 2
    /\ last.op = "updateInventory"
    /\ Len(ledger.tradeHistory) = 500
    /\ ledger.tradeHistory[1] = PastTrade(502)
    /\ ledger.tradeHistory[498] = PastTrade(999)
    /\ ledger.tradeHistory[500] = last.args[1]

\* C15: an order made by placeOrders has the requested size clamped into
\* [minOrderSize, maxOrderSize], or getMaxOrderSize(side) when the ledger's
\* shouldAcceptOrder rejects that size (the size being then put on the size
\* tick, as every order's is); so a buy order has
\* currentInventory + size <= maxInventory and a sell order has
\* currentInventory - size >= minInventory when it is placed.
C15_OrdersWithinInventoryLimits ==
    \A quote \in Quotes :
        LET placed == placeOrders(MMNow, quote).ret
            Sized(side, size) ==
                LET adjustedSize == RMax(mmConfig.minOrderSize,
                                         RMin(mmConfig.maxOrderSize, size))
                IN  IF shouldAcceptOrder(ledger, side, adjustedSize)
                    THEN adjustedSize ELSE getMaxOrderSize(ledger, side)
        IN  /\ placed.bidOrder.size =
                   roundToTick(Sized("buy", quote.bidSize), mmConfig.sizeTickSize)
            /\ placed.askOrder.size =
                   roundToTick(Sized("sell", quote.askSize), mmConfig.sizeTickSize)
            /\ Le(Plus(ledger.currentInventory, placed.bidOrder.size),
                  ledger.config.maxInventory)
            /\ Ge(Minus(ledger.currentInventory, placed.askOrder.size),
                  ledger.config.minInventory)

\* C16: processFill changes realizedPnL if and only if the fill reduces or
\* closes the position held before it (a sell while long, a buy while
\* short); a fill that opens or extends a position leaves realizedPnL as it
\* was.  (An update that is applied shows in the value: at the prices filled
\* here the profit less the fee of 0.1% is never zero.)
C16_PnLOnlyOnReducingFills ==
    \A orderId \in activeOrders, filledSize \in FillSizes :
        LET out == processFill(MMNow, orderId, filledSize, orders[orderId].price)
            before == ledger.currentInventory
            reducing == \/ orders[orderId].side = "sell" /\ Gt(before, Zero)
                        \/ orders[orderId].side = "buy" /\ Lt(before, Zero)
        IN  reducing <=> (out.self.realizedPnL # realizedPnL)

\* C20: the coordinator's trade history, over which getAvgEntryPrice
\* averages, holds at most 1000 trades after any number of processFill calls.
C20_CoordinatorHistoryBounded == Len(tradeHistory) <= 1000

\* C21: getStats().totalTrades is the number of trades executed, that is of
\* the non-null results of processFill since construction or the last reset.
\* The coordinator's tradeHistory takes one entry per such result and is
\* emptied only by reset, so its length is that number.
C21_TotalTradesCountsFills == getStats(MMNow).totalTrades = Len(tradeHistory)

\* the configurations the spread bounds are stated for
SpreadConfigOrdered ==
    /\ Gt(spreadConfig.minSpread, Zero)
    /\ Le(spreadConfig.minSpread, spreadConfig.maxSpread)

\* C22: with 0 < minSpread <= maxSpread and inventorySkewMultiplier >= 0,
\* for every market snapshot and every inventory ratio in [0,1],
\* calculateOptimalSpread returns bidSpread >= minSpread/2, askSpread >=
\* minSpread/2 and bidSpread + askSpread <= maxSpread.
C22_SpreadWithinBounds ==
    [][(/\ last'.op = "calculateOptimalSpread"
        /\ SpreadConfigOrdered
        /\ Ge(spreadConfig.inventorySkewMultiplier, Zero))
       => /\ Ge(last'.ret.bidSpread, Over(spreadConfig.minSpread, R(2)))
          /\ Ge(last'.ret.askSpread, Over(spreadConfig.minSpread, R(2)))
          /\ Le(Plus(last'.ret.bidSpread, last'.ret.askSpread),
                spreadConfig.maxSpread)]_vars

\* the skew sign property of the spreads returned by the call just made
SkewSign(ratio, ret) ==
    /\ Gt(ratio, Half) => Gt(ret.bidSpread, ret.askSpread)
    /\ Lt(ratio, Half) => Gt(ret.askSpread, ret.bidSpread)
    /\ ratio = Half => ret.bidSpread = ret.askSpread

\* C23: for every market snapshot and inventorySkewMultiplier > 0,
\* inventoryRatio > 0.5 gives bidSpread > askSpread, inventoryRatio < 0.5
\* gives askSpread > bidSpread and inventoryRatio = 0.5 gives bidSpread =
\* askSpread, also when a side is floored at minSpread/2.
C23_SkewSign ==
    [][(/\ last'.op = "calculateOptimalSpread"
        /\ Gt(spreadConfig.inventorySkewMultiplier, Zero))
       => SkewSign(last'.args[2].inventoryRatio, last'.ret)]_vars

\* C23 as amended: the same for every spread configuration with
\* 0 < minSpread <= maxSpread (and inventorySkewMultiplier > 0).
C23_SkewSignOrdered ==
    [][(/\ last'.op = "calculateOptimalSpread"
        /\ SpreadConfigOrdered
        /\ Gt(spreadConfig.inventorySkewMultiplier, Zero))
       => SkewSign(last'.args[2].inventoryRatio, last'.ret)]_vars

\* minSpread = maxSpread = 0.02, multiplier 0.5, ratio 1: the ask side is
\* floored at 0.01 and the bid side is 0.015
C23_AskFloored ==
    /\ last.op = "calculateOptimalSpread"
    /\ SpreadConfigOrdered
    /\ spreadConfig.inventorySkewMultiplier = Half
    /\ last.args[2].inventoryRatio = One
    /\ last.ret.askSpread = Over(spreadConfig.minSpread, R(2))
    /\ last.ret.bidSpread = Rat(15, 1000)

\* what C24 calls the inventory ledger, the open-order table, totalVolume,
\* realizedPnL and the spread configuration
CoordinatorSide ==
    <<ledger.currentInventory, ledger.avgEntryPrice, ledger.tradeHistory,
      orders, activeOrders, tradeHistory, totalVolume, realizedPnL, spreadConfig,
      mmConfig.spread>>

\* C24: a pool operation of the coordinator (initializeLiquidityPool,
\* addLiquidity, removeLiquidity, executeSwap, getPoolState), whether it
\* succeeds or fails, leaves the ledger, the open-order table, totalVolume,
\* realizedPnL and the spread configuration as they were; and a step that
\* changes any of these (processFill, placeOrders, cancelOrder) leaves the
\* pool's reserves and LP supply as they were.
C24_PoolAndInventoryApart ==
    [][/\ \A p \in ProxyPairs :
             /\ initializeLiquidityPool(MMNow, p[1], p[2]).self = MMNow
             /\ mmAddLiquidity(MMNow, p[1], p[2]).self = MMNow
       /\ \A lpTokens \in ProxyLpAmounts : mmRemoveLiquidity(MMNow, lpTokens).self = MMNow
       /\ \A swap \in ProxySwaps :
             mmExecuteSwap(MMNow, swap[1], swap[2], swap[3]).self = MMNow
       /\ getPoolState(MMNow).self = MMNow
       /\ (PoolNow' # PoolNow => CoordinatorSide' = CoordinatorSide)]_vars

\* an order has been filled in part, and the pool has been initialized
\* through the coordinator
C24_FilledAndPooled ==
    /\ lpTokenSupply = R(1000)
    /\ tokenAReserve = R(1000)
    /\ Len(tradeHistory) = 1
    /\ activeOrders = {1, 2}

\* C25: cancelOrder on an open order (pending or partial) returns true, sets
\* the order's status to cancelled and takes it out of the table in the one
\* call, and leaves the inventory ledger, the trade history, totalVolume and
\* realizedPnL as they were (the fills the order has had are kept); after
\* cancelAllOrders() or stop() the open-order table is empty.
C25_CancelIsOneStep ==
    /\ [](\A orderId \in activeOrders :
            LET out == cancelOrder(MMNow, orderId)
            IN  /\ out.ret = TRUE
                /\ out.self.orders[orderId].status = "cancelled"
                /\ out.self.orders[orderId].filledSize = orders[orderId].filledSize
                /\ out.self.activeOrders = activeOrders \ {orderId}
                /\ out.self.inventoryController = ledger
                /\ out.self.tradeHistory = tradeHistory
                /\ out.self.totalVolume = totalVolume
                /\ out.self.realizedPnL = realizedPnL)
    /\ [](cancelAllOrders(MMNow).self.activeOrders = {})
    /\ [](stop(MMNow).self.activeOrders = {})
    /\ [][\A id \in DOMAIN orders :
            (orders'[id].status = "cancelled" /\ orders[id].status # "cancelled")
            => /\ orders[id].status \in {"pending", "partial"}
               /\ id \in activeOrders
               /\ id \notin activeOrders'
               /\ orders'[id].filledSize = orders[id].filledSize]_vars

\* an order filled in part has been cancelled, and its fill is in the position
C25_PartialCancelled ==
    \E id \in DOMAIN orders :
        /\ orders[id].status = "cancelled"
        /\ orders[id].side = "buy"
        /\ Gt(orders[id].filledSize, Zero)
        /\ ledger.currentInventory = orders[id].filledSize

\* C26: in every reachable state of the ledger, under any interleaving of
\* updateInventory, setInventory, reset and updateConfig (which may change
\* minInventory, maxInventory or targetInventory), minInventory <=
\* currentInventory <= maxInventory for the limits configured at that moment.
C26_InventoryWithinConfiguredBounds ==
    /\ Ge(ledger.currentInventory, ledger.config.minInventory)
    /\ Le(ledger.currentInventory, ledger.config.maxInventory)

\* two holders between them hold what has been granted and not burned: one
\* a quarter of it, the other the rest
HolderBalances == <<Times(lpHeld, Rat(1, 4)), Times(lpHeld, Rat(3, 4))>>

NetFilled ==
    Minus(SideVolumeIn(tradeHistory, "buy", 1, Len(tradeHistory)),
          SideVolumeIn(tradeHistory, "sell", 1, Len(tradeHistory)))

\* C28: after any sequence of processFill calls since construction, the
\* ledger's currentInventory equals the sum of the sizes of the buy trades
\* returned minus the sum of the sizes of the sell trades returned.
C28_PositionIsNetOfFills ==
    ledger.currentInventory = NetFilled

\* C29: in every reachable state, every order in the open-order table has
\* status pending or partial and filledSize < size; an order has status
\* pending exactly when no fill has been applied to it (a fill leaves the
\* order partial or takes it out of the table, and nothing makes an order
\* pending again), and no order with status filled or cancelled is in the
\* table.
C29_OpenOrdersAreOpen ==
    /\ [](\A id \in activeOrders :
            /\ orders[id].status \in {"pending", "partial"}
            /\ Lt(orders[id].filledSize, orders[id].size)
            /\ orders[id].status = "pending" <=> orders[id].filledSize = Zero)
    /\ [](\A id \in DOMAIN orders :
            orders[id].status \in {"filled", "cancelled"} => id \notin activeOrders)
    /\ [][\A id \in DOMAIN orders :
            /\ orders'[id].filledSize # orders[id].filledSize
                  => orders'[id].status \in {"partial", "filled"}
            /\ orders'[id].status = "pending" => orders[id].status = "pending"]_vars

\* C30: on an initialized pool (both reserves > 0) with fee in [0, 1), every
\* swap with amountIn > 0 yields 0 < amountOut < reserveOut, so that no
\* executeSwap empties or overdraws a reserve: both reserves are positive
\* after it.
C30_SwapLeavesReserves ==
    [][(/\ last'.op = "executeSwap"
        /\ last'.err = "none"
        /\ Gt(tokenAReserve, Zero) /\ Gt(tokenBReserve, Zero)
        /\ Ge(fee, Zero) /\ Lt(fee, One)
        /\ Gt(last'.args[1], Zero))
       => LET reserveOut == IF last'.args[2] = "A" THEN tokenBReserve
                            ELSE tokenAReserve
          IN  /\ Gt(last'.ret.amountOut, Zero)
              /\ Lt(last'.ret.amountOut, reserveOut)
              /\ Gt(tokenAReserve', Zero)
              /\ Gt(tokenBReserve', Zero)]_vars

\* the reserves held (both > 0): the pool the claims call initialized
HoldsReserves(a, b) == Gt(a, Zero) /\ Gt(b, Zero)

\* C31: addLiquidity on an initialized pool and removeLiquidity of less than
\* the whole supply leave the price tokenBReserve / tokenAReserve unchanged
\* and leave the reserves backing each LP token (reserve / lpTokenSupply, for
\* both tokens) unchanged: of the calls that trade with the pool, only swaps
\* move the price.
C31_LiquidityKeepsPrice ==
    [][(/\ last'.err = "none"
        /\ HoldsReserves(tokenAReserve, tokenBReserve)
        /\ \/ last'.op = "addLiquidity"
           \/ last'.op = "removeLiquidity" /\ Lt(last'.args[1], lpTokenSupply))
       => /\ Over(tokenBReserve', tokenAReserve') = Over(tokenBReserve, tokenAReserve)
          /\ Over(tokenAReserve', lpTokenSupply') = Over(tokenAReserve, lpTokenSupply)
          /\ Over(tokenBReserve', lpTokenSupply') = Over(tokenBReserve, lpTokenSupply)]_vars

====
